---------------------------- MODULE Spec2Model ----------------------------
(***************************************************************************)
(* tomviz/python/setup.py: the packaging manifest of tomviz-pipeline.      *)
(*                                                                         *)
(* The manifest is a script.  Each evaluation ("run") of it is a process   *)
(* that starts in some environment (a source tree and a site-packages      *)
(* directory), imports setuptools from it (line 1), binds the module       *)
(* global jsonpatch_uri (lines 3-4), calls                                 *)
(* setup() with the keyword arguments of lines 6-37, and is then installed *)
(* by the package installer with a selection of extras.  The installer     *)
(* reads the strings the manifest declares: requirement specifiers         *)
(* ("name" or "name@url"), console-script entry points                     *)
(* ("name = module:attr") and trove classifiers ("a :: b :: c").           *)
(***************************************************************************)
EXTENDS Integers, Sequences, FiniteSets, TLC

(* Bounds of the model. *)
MaxRuns == 2        \* evaluations of the manifest that are compared
MaxPackages == 1    \* importable package directories a source tree may hold
MaxMinor == 13      \* Python 3 minor releases 3.0 .. 3.MaxMinor a classifier is asked to cover

Runs == 1..MaxRuns

VARIABLES
    pc,             \* pc[r]: where run r is: "line1", "ImportError", "line3",
                    \*        "line6", "setup" (setup() was called), "installed"
    env,            \* env[r]: the environment run r is evaluated in
    jsonpatch_uri,  \* jsonpatch_uri[r]: the module global of lines 3-4
    kwargs,         \* kwargs[r]: the keyword arguments setup() received
    dist            \* dist[r]: what the installer made of run r

vars == <<pc, env, jsonpatch_uri, kwargs, dist>>

-----------------------------------------------------------------------------
(* Strings, as the installer reads them. *)

\* The first index >= i at which sep occurs in s, 0 if there is none.
RECURSIVE FindFrom(_, _, _)
FindFrom(s, sep, i) ==
    IF i + Len(sep) - 1 > Len(s) THEN 0
    ELSE IF SubSeq(s, i, i + Len(sep) - 1) = sep THEN i
    ELSE FindFrom(s, sep, i + 1)

Find(s, sep) == FindFrom(s, sep, 1)

RECURSIVE LStrip(_)
LStrip(s) ==
    IF Len(s) > 0 /\ SubSeq(s, 1, 1) = " " THEN LStrip(SubSeq(s, 2, Len(s))) ELSE s

RECURSIVE RStrip(_)
RStrip(s) ==
    IF Len(s) > 0 /\ SubSeq(s, Len(s), Len(s)) = " "
    THEN RStrip(SubSeq(s, 1, Len(s) - 1)) ELSE s

Strip(s) == RStrip(LStrip(s))

\* s.split(sep)
RECURSIVE Split(_, _)
Split(s, sep) ==
    LET k == Find(s, sep) IN
    IF k = 0 THEN <<s>>
    ELSE <<SubSeq(s, 1, k - 1)>> \o Split(SubSeq(s, k + Len(sep), Len(s)), sep)

Range(f) == {f[i] : i \in DOMAIN f}


-----------------------------------------------------------------------------
(* The manifest's literals (setup.py). *)

JsonpatchUriIndexRelease == "jsonpatch"

\* lines 3-4
JsonpatchUriLiteral ==
    "jsonpatch@https://github.com/cjh1/python-json-patch/archive/tomviz.zip"

\* line 7
name == "tomviz-pipeline"

\* line 8
version == "0.0.1"

\* line 13
license == "BSD 3-Clause"

classifiers_only_3_5 ==
    << "Development Status :: 3 - Alpha",
       "License :: OSI Approved :: BSD 3-Clause",
       "Operating System :: OS Independent",
       "Programming Language :: Python",
       "Programming Language :: Python :: 2",
       "Programming Language :: Python :: 2.7",
       "Programming Language :: Python :: 3.5" >>

\* lines 14-23
classifiers ==
    << "Development Status :: 3 - Alpha",
       "License :: OSI Approved :: BSD 3-Clause",
       "Operating System :: OS Independent",
       "Programming Language :: Python",
       "Programming Language :: Python :: 2",
       "Programming Language :: Python :: 2.7",
       "Programming Language :: Python :: 3",
       "Programming Language :: Python :: 3.5" >>

install_requires_without_scipy == <<"tqdm", "h5py", "numpy", "click">>

install_requires_with_pyfftw == <<"tqdm", "h5py", "numpy", "click", "scipy", "pyfftw">>

install_requires_without_numpy == <<"tqdm", "h5py", "click", "scipy">>

\* line 25
install_requires == <<"tqdm", "h5py", "numpy", "click", "scipy">>

extras_require_itk_empty(uri) ==
    [interactive |-> <<uri, "marshmallow">>,
     itk         |-> <<>>,
     pyfftw      |-> <<"pyfftw">>]

extras_require_itk_lists_numpy(uri) ==
    [interactive |-> <<uri, "marshmallow">>,
     itk         |-> <<"itk", "numpy">>,
     pyfftw      |-> <<"pyfftw">>]

\* lines 26-31; uri is the value of the global jsonpatch_uri when line 28 reads it
extras_require(uri) ==
    [interactive |-> <<uri, "marshmallow">>,
     itk         |-> <<"itk">>,
     pyfftw      |-> <<"pyfftw">>]

entry_points_without_attr ==
    [console_scripts |-> <<"tomviz-pipeline = tomviz.cli">>]

entry_points_two_scripts ==
    [console_scripts |-> <<"tomviz-pipeline = tomviz.cli:main",
                           "tomviz = tomviz.cli:main">>]

\* lines 32-36
entry_points ==
    [console_scripts |-> <<"tomviz-pipeline = tomviz.cli:main">>]

\* line 24: find_packages() lists the importable package directories of the
\* source tree the manifest is evaluated in; a tree is modelled by how many
\* it holds, and the i-th is called "pkg<i>".
PackageDir(i) == "pkg" \o ToString(i)

find_packages(tree) == [i \in 1..tree |-> PackageDir(i)]

setup_kwargs_version_from_tree(uri, tree) ==
    [name             |-> name,
     version          |-> "0.0." \o ToString(tree),
     license          |-> license,
     classifiers      |-> classifiers,
     packages         |-> find_packages(tree),
     install_requires |-> install_requires,
     extras_require   |-> extras_require(uri),
     entry_points     |-> entry_points]

\* lines 6-37: the keyword arguments of the setup() call
setup_kwargs(uri, tree) ==
    [name             |-> name,
     version          |-> version,
     license          |-> license,
     classifiers      |-> classifiers,
     packages         |-> find_packages(tree),
     install_requires |-> install_requires,
     extras_require   |-> extras_require(uri),
     entry_points     |-> entry_points]

-----------------------------------------------------------------------------
(* The installer: what it makes of the declared strings. *)

\* A requirement specifier: "name" (resolved against the package index) or
\* "name@url" (a direct reference to an archive).
ParseRequirement(s) ==
    LET k == Find(s, "@") IN
    IF k = 0 THEN [name |-> Strip(s), url |-> ""]
    ELSE [name |-> Strip(SubSeq(s, 1, k - 1)),
          url  |-> Strip(SubSeq(s, k + 1, Len(s)))]

\* A console-script entry point: "name = module:attr".
ParseEntryPoint(s) ==
    LET k     == Find(s, "=")
        left  == IF k = 0 THEN s ELSE SubSeq(s, 1, k - 1)
        right == IF k = 0 THEN "" ELSE Strip(SubSeq(s, k + 1, Len(s)))
        c     == Find(right, ":")
    IN  [name   |-> Strip(left),
         module |-> IF c = 0 THEN right ELSE Strip(SubSeq(right, 1, c - 1)),
         attr   |-> IF c = 0 THEN "" ELSE Strip(SubSeq(right, c + 1, Len(right)))]

ParseAll(specifiers) == {ParseRequirement(specifiers[i]) : i \in DOMAIN specifiers}

\* The requirements of an install request: the unconditional ones, then those
\* of each extra of the request, in the order the request names them.
RECURSIVE Requires(_, _)
Requires(kw, selection) ==
    IF selection = <<>> THEN ParseAll(kw.install_requires)
    ELSE Requires(kw, SubSeq(selection, 1, Len(selection) - 1))
            \cup ParseAll(kw.extras_require[selection[Len(selection)]])

ConsoleScripts(kw) ==
    {ParseEntryPoint(kw.entry_points.console_scripts[i]) :
        i \in DOMAIN kw.entry_points.console_scripts}

\* The install requests: the extras a request names, in order, none twice.
Selections(kw) ==
    LET keys == DOMAIN kw.extras_require IN
    {s \in UNION {[1..n -> keys] : n \in 0..Cardinality(keys)} :
        \A i, j \in DOMAIN s : s[i] = s[j] => i = j}

\* Distributions a site-packages directory may hold when the manifest is
\* evaluated; the manifest imports from setuptools alone.
Preinstallable == {"setuptools"}

Environments == [tree : 0..MaxPackages, site : SUBSET Preinstallable]

-----------------------------------------------------------------------------
NoEnv == [tree |-> 0, site |-> {}]

NoKwargs ==
    [name |-> "", version |-> "", license |-> "", classifiers |-> <<>>,
     packages |-> <<>>, install_requires |-> <<>>,
     extras_require |-> <<>>, entry_points |-> <<>>]

NoDist ==
    [name |-> "", version |-> "", extras |-> {}, requires |-> {}, scripts |-> {}]

Init ==
    /\ pc = [r \in Runs |-> "line1"]
    /\ env = [r \in Runs |-> NoEnv]
    /\ jsonpatch_uri = [r \in Runs |-> ""]
    /\ kwargs = [r \in Runs |-> NoKwargs]
    /\ dist = [r \in Runs |-> NoDist]

\* line 1: the interpreter starts in an environment and imports setup and
\* find_packages from setuptools; without setuptools the evaluation ends
\* with an ImportError.
ImportSetuptools(r) ==
    /\ pc[r] = "line1"
    /\ \E e \in Environments :
         /\ env' = [env EXCEPT ![r] = e]
         /\ pc' = [pc EXCEPT ![r] =
                      IF "setuptools" \in e.site THEN "line3" ELSE "ImportError"]
    /\ UNCHANGED <<jsonpatch_uri, kwargs, dist>>

\* lines 3-4: jsonpatch_uri is bound.
BindJsonpatchUri(r) ==
    /\ pc[r] = "line3"
    /\ jsonpatch_uri' = [jsonpatch_uri EXCEPT ![r] = JsonpatchUriLiteral]
    /\ pc' = [pc EXCEPT ![r] = "line6"]
    /\ UNCHANGED <<env, kwargs, dist>>

\* lines 6-37: setup() is called.
CallSetup(r) ==
    /\ pc[r] = "line6"
    /\ kwargs' = [kwargs EXCEPT ![r] = setup_kwargs(jsonpatch_uri[r], env[r].tree)]
    /\ pc' = [pc EXCEPT ![r] = "setup"]
    /\ UNCHANGED <<env, jsonpatch_uri, dist>>

\* The installer installs what setup() described, with the requested extras.
Install(r) ==
    /\ pc[r] = "setup"
    /\ \E selection \in Selections(kwargs[r]) :
         dist' = [dist EXCEPT ![r] =
                    [name     |-> kwargs[r].name,
                     version  |-> kwargs[r].version,
                     extras   |-> Range(selection),
                     requires |-> Requires(kwargs[r], selection),
                     scripts  |-> ConsoleScripts(kwargs[r])]]
    /\ pc' = [pc EXCEPT ![r] = "installed"]
    /\ UNCHANGED <<env, jsonpatch_uri, kwargs>>

Next ==
    \E r \in Runs :
        ImportSetuptools(r) \/ BindJsonpatchUri(r) \/ CallSetup(r) \/ Install(r)

Spec == Init /\ [][Next]_vars

-----------------------------------------------------------------------------
(* Trove classifiers: "Programming Language :: Python :: <version>". *)

ClassifierPath(c) == Split(c, " :: ")

\* The interpreter version a classifier names, "" if it names none.
PythonVersion(c) ==
    LET path == ClassifierPath(c) IN
    IF Len(path) = 3 /\ path[1] = "Programming Language" /\ path[2] = "Python"
    THEN path[3] ELSE ""

\* A classifier naming a major version covers all its minor releases; one
\* naming major.minor covers that release alone.
VersionCovers(v, major, minor) ==
    v # "" /\ (IF Find(v, ".") = 0 THEN v = major ELSE v = major \o "." \o minor)

Covers(c, major, minor) == VersionCovers(PythonVersion(c), major, minor)

\* The interpreter versions a classifier list names.
PythonVersions(list) == {PythonVersion(list[i]) : i \in DOMAIN list} \ {""}

-----------------------------------------------------------------------------
(* Vocabulary of the properties. *)

SetupCalled(r) == pc[r] \in {"setup", "installed"}

Installed(r) == pc[r] = "installed"

Names(reqs) == {q.name : q \in reqs}

BaseNames == {"tqdm", "h5py", "numpy", "click", "scipy"}

ForkUrl == "https://github.com/cjh1/python-json-patch/archive/tomviz.zip"

InteractiveReqs ==
    {[name |-> "jsonpatch", url |-> ForkUrl], [name |-> "marshmallow", url |-> ""]}

AllExtras == {"interactive", "itk", "pyfftw"}

MetadataFields(kw) ==
    <<kw.name, kw.version, kw.install_requires, kw.extras_require, kw.entry_points>>

NameList(specifiers) == [i \in DOMAIN specifiers |-> ParseRequirement(specifiers[i]).name]

NoRepeat(seq) == \A i, j \in DOMAIN seq : seq[i] = seq[j] => i = j

-----------------------------------------------------------------------------
(* C1: every install, whatever extras it selects, registers a console      *)
(* command named tomviz-pipeline, and that command resolves to the         *)
(* attribute main of the one module tomviz.cli.                            *)
C1_ConsoleCommandRegistered ==
    \A r \in Runs : Installed(r) =>
        \E s \in dist[r].scripts :
            /\ s = [name |-> "tomviz-pipeline", module |-> "tomviz.cli", attr |-> "main"]
            /\ \A t \in dist[r].scripts : t.name = "tomviz-pipeline" => t = s

C1_Witness ==
    \E r1, r2 \in Runs :
        /\ Installed(r1) /\ dist[r1].extras = {}
        /\ Installed(r2) /\ dist[r2].extras = AllExtras
        /\ dist[r1].scripts # {} /\ dist[r2].scripts # {}

(* C2: an install that selects no extra requires exactly the five          *)
(* unconditional dependencies tqdm, h5py, numpy, click and scipy, each     *)
(* from the index, and nothing else.                                       *)
C2_BaseInstallRequiresExactlyFive ==
    \A r \in Runs : (Installed(r) /\ dist[r].extras = {}) =>
        /\ Names(dist[r].requires) = BaseNames
        /\ Cardinality(dist[r].requires) = 5
        /\ \A q \in dist[r].requires : q.url = ""
        /\ Names(dist[r].requires) \cap {"jsonpatch", "marshmallow", "itk", "pyfftw"} = {}

C2_Witness ==
    \E r \in Runs :
        Installed(r) /\ dist[r].extras = {} /\ Cardinality(dist[r].requires) = 5

(* C3: an install that selects "interactive" requires, beyond the base     *)
(* dependencies and what the other extras bring, exactly jsonpatch pinned  *)
(* to the fork's archive URL and marshmallow; an install that does not     *)
(* select it requires neither.                                             *)
C3_InteractiveAddsForkAndMarshmallow ==
    \A r \in Runs : Installed(r) =>
        LET added == {q \in dist[r].requires : q.name \notin BaseNames \cup {"itk", "pyfftw"}}
        IN  /\ BaseNames \subseteq Names(dist[r].requires)
            /\ "interactive" \in dist[r].extras => added = InteractiveReqs
            /\ "interactive" \notin dist[r].extras =>
                  /\ added = {}
                  /\ Names(dist[r].requires) \cap {"jsonpatch", "marshmallow"} = {}
            /\ dist[r].extras = {"interactive"} => Cardinality(dist[r].requires) = 7

C3_Witness ==
    \E r1, r2 \in Runs :
        /\ Installed(r1) /\ dist[r1].extras = {"interactive"}
        /\ [name |-> "jsonpatch", url |-> ForkUrl] \in dist[r1].requires
        /\ Installed(r2) /\ "interactive" \notin dist[r2].extras

(* C4: an install requires itk exactly when it selects the "itk" extra,    *)
(* and then in addition to the base dependencies.                          *)
C4_ItkOnlyWithItkExtra ==
    \A r \in Runs : Installed(r) =>
        /\ BaseNames \subseteq Names(dist[r].requires)
        /\ "itk" \in Names(dist[r].requires) <=> "itk" \in dist[r].extras

C4_Witness ==
    \E r1, r2 \in Runs :
        /\ Installed(r1) /\ dist[r1].extras = {"itk"}
        /\ "itk" \in Names(dist[r1].requires)
        /\ Installed(r2) /\ dist[r2].extras = {"interactive", "pyfftw"}

(* C5: an install requires pyfftw exactly when it selects the "pyfftw"     *)
(* extra, and then in addition to the base dependencies.                   *)
C5_PyfftwOnlyWithPyfftwExtra ==
    \A r \in Runs : Installed(r) =>
        /\ BaseNames \subseteq Names(dist[r].requires)
        /\ "pyfftw" \in Names(dist[r].requires) <=> "pyfftw" \in dist[r].extras

C5_Witness ==
    \E r1, r2 \in Runs :
        /\ Installed(r1) /\ dist[r1].extras = {"pyfftw"}
        /\ "pyfftw" \in Names(dist[r1].requires)
        /\ Installed(r2) /\ dist[r2].extras = {"interactive", "itk"}

(* C6: the metadata fields (name, version, dependency specifiers, extras   *)
(* groups, entry points) that setup() received never change afterwards,    *)
(* and any two evaluations, whatever environments they run in, pass        *)
(* setup() identical values for them.                                      *)
C6_MetadataStaticAcrossEnvironments ==
    [][ /\ \A r \in Runs : SetupCalled(r) =>
               MetadataFields(kwargs'[r]) = MetadataFields(kwargs[r])
        /\ \A r1, r2 \in Runs : (SetupCalled(r1)' /\ SetupCalled(r2)') =>
               MetadataFields(kwargs'[r1]) = MetadataFields(kwargs'[r2]) ]_vars

C6_Witness ==
    \E r1, r2 \in Runs :
        /\ Installed(r1) /\ SetupCalled(r2)
        /\ env[r1].tree # env[r2].tree
        /\ kwargs[r1].packages # kwargs[r2].packages
        /\ MetadataFields(kwargs[r1]) = MetadataFields(setup_kwargs(JsonpatchUriLiteral, 0))

(* C7: the classifiers setup() received contain the Python 2.7 classifier  *)
(* and a classifier that covers every Python 3 minor release.              *)
C7_ClassifiersCoverPython27And3 ==
    \A r \in Runs : SetupCalled(r) =>
        LET versions == PythonVersions(kwargs[r].classifiers) IN
        /\ "2.7" \in versions
        /\ \E v \in versions : VersionCovers(v, "2", "7")
        /\ \E v \in versions :
              \A m \in 0..MaxMinor : VersionCovers(v, "3", ToString(m))

C7_Witness ==
    \E r \in Runs :
        /\ SetupCalled(r)
        /\ \E i \in DOMAIN kwargs[r].classifiers :
              /\ Covers(kwargs[r].classifiers[i], "3", "5")
              /\ ~ Covers(kwargs[r].classifiers[i], "3", "6")

(* C8: extras are additive: every install requires the base five; what an  *)
(* install requires is the base list together with the list of each extra  *)
(* it selects, whatever the order of selection; and an install selecting   *)
(* fewer extras requires no more than one selecting more.                  *)
C8_ExtrasAdditive ==
    /\ \A r \in Runs : Installed(r) =>
          /\ BaseNames \subseteq Names(dist[r].requires)
          /\ dist[r].requires =
                ParseAll(kwargs[r].install_requires) \cup
                UNION {ParseAll(kwargs[r].extras_require[e]) : e \in dist[r].extras}
    /\ \A r1, r2 \in Runs :
          (Installed(r1) /\ Installed(r2) /\ dist[r1].extras \subseteq dist[r2].extras) =>
              dist[r1].requires \subseteq dist[r2].requires

C8_Witness ==
    \E r1, r2 \in Runs :
        /\ Installed(r1) /\ Installed(r2)
        /\ dist[r1].extras = {"itk"}
        /\ dist[r2].extras = {"itk", "interactive"}
        /\ dist[r1].requires # dist[r2].requires
        /\ dist[r1].requires \subseteq dist[r2].requires

(* C9: the dependency groups setup() received (the base list and the       *)
(* lists of the extras interactive, itk and pyfftw) name no distribution   *)
(* twice, neither within a group nor across two groups.                    *)
C9_GroupsDisjoint ==
    \A r \in Runs : SetupCalled(r) =>
        LET kw     == kwargs[r]
            keys   == DOMAIN kw.extras_require
            base   == NameList(kw.install_requires)
            group(e) == NameList(kw.extras_require[e])
        IN  /\ keys = AllExtras
            /\ NoRepeat(base)
            /\ \A e \in keys : NoRepeat(group(e)) /\ Range(group(e)) \cap Range(base) = {}
            /\ \A e, f \in keys : e # f => Range(group(e)) \cap Range(group(f)) = {}

C9_Witness ==
    \E r \in Runs :
        /\ SetupCalled(r)
        /\ Range(NameList(kwargs[r].extras_require["interactive"])) = {"jsonpatch", "marshmallow"}
        /\ Len(kwargs[r].install_requires) = 5

(* C10: the installed distribution's name, version and console commands    *)
(* are the same whatever extras are selected, and exactly one console      *)
(* command is registered.                                                  *)
C10_ExtrasChangeOnlyRequirements ==
    \A r1, r2 \in Runs : (Installed(r1) /\ Installed(r2)) =>
        /\ dist[r1].name = dist[r2].name
        /\ dist[r1].version = dist[r2].version
        /\ dist[r1].scripts = dist[r2].scripts
        /\ Cardinality(dist[r1].scripts) = 1

C10_Witness ==
    \E r1, r2 \in Runs :
        /\ Installed(r1) /\ Installed(r2)
        /\ dist[r1].extras = {} /\ dist[r2].extras = {"pyfftw", "itk", "interactive"}
        /\ dist[r1].requires # dist[r2].requires
        /\ dist[r1].name = "tomviz-pipeline"

=============================================================================
